---- MODULE Spec2Model ----
(***************************************************************************)
(* go-mocket: the fake statement (FakeStmt) and fake transaction (FakeTx)  *)
(* of src/stmt.go as a state machine.                                      *)
(*                                                                         *)
(* SQL text is a sequence of one-character strings.  A driver.NamedValue   *)
(* is represented by its Value, which is a Go string, itself a sequence of *)
(* one-character strings.  Pointers are small integers, 0 being nil.       *)
(***************************************************************************)
EXTENDS Integers, Sequences, FiniteSets

(* ------------------------------ bounds -------------------------------- *)

\* number of FakeStmt objects, linked 1 -> 2 -> ... -> NumStmts by next
NumStmts == 2
\* longest argument list passed to ExecContext / QueryContext
MaxArgs == 2
\* rand.Int63() is drawn from 0 .. MaxRand (the code draws from 0 .. 2^63-1)
MaxRand == 2
\* QueryContext is called with arguments only while Len(s.q) <= MaxQLen,
\* which stops the stored text from growing without end
MaxQLen == 2

(* ------------------------------ values -------------------------------- *)

Stmts == 1 .. NumStmts
NilStmt == 0

\* connection 1 is open (db set); connection 2 was closed (db = nil)
Conns == {1, 2}
NilConn == 0

Commands == {"INSERT", "UPDATE", "DELETE", "MERGE", "SELECT", ""}

\* the values bound to placeholders: a plain value, and values whose text
\* holds a placeholder or a format verb introducer
ArgVals == {<<"a">>, <<"?">>, <<"%">>}

RECURSIVE SeqsUpTo(_, _)
SeqsUpTo(S, n) ==
  IF n = 0 THEN {<<>>}
  ELSE LET shorter == SeqsUpTo(S, n - 1)
       IN  shorter \cup {Append(p, x) : p \in {t \in shorter : Len(t) = n - 1}, x \in S}

ArgLists == SeqsUpTo(ArgVals, MaxArgs)

(* ------------------------------ errors -------------------------------- *)

NoError == [code |-> "nil"]
errClosed == [code |-> "fake_db_driver: statement has been closed"]
ErrBadConn == [code |-> "driver: bad connection"]
\* fmt.Errorf("unimplemented statement Exec command type of %q", s.command)
ErrUnimplemented(command) ==
  [code |-> "unimplemented statement Exec command type of", command |-> command]
\* an error value a test registers on a response
RegisteredError == [code |-> "registered", id |-> "E1"]

(* ------------------------- fmt and strings ---------------------------- *)

\* strings.Count(q, "?")
RECURSIVE CountPlaceholders(_)
CountPlaceholders(q) ==
  IF q = <<>> THEN 0
  ELSE (IF Head(q) = "?" THEN 1 ELSE 0) + CountPlaceholders(Tail(q))

\* strings.Replace(q, "?", "%v", 1): the first "?" becomes "%v"
RECURSIVE ReplaceFirst(_)
ReplaceFirst(q) ==
  IF q = <<>> THEN <<>>
  ELSE IF Head(q) = "?" THEN <<"%", "v">> \o Tail(q)
  ELSE <<Head(q)>> \o ReplaceFirst(Tail(q))

\* the pieces fmt writes for a malformed format
FmtNoVerb == <<"%", "!", "(", "N", "O", "V", "E", "R", "B", ")">>
FmtMissing(verb) ==
  <<"%", "!", verb, "(", "M", "I", "S", "S", "I", "N", "G", ")">>
FmtBadVerb(verb, arg) ==
  <<"%", "!", verb, "(", "s", "t", "r", "i", "n", "g", "=">> \o arg \o <<")">>
FmtExtra(arg) ==
  <<"%", "!", "(", "E", "X", "T", "R", "A", " ", "s", "t", "r", "i", "n", "g", "=">>
    \o arg \o <<")">>

\* fmt.Sprintf(format, arg) for one string operand, scanning format from
\* position i; used tells whether the operand has been consumed.  The texts
\* of this model never put a flag, a digit, '.', '[' or '*' after a '%', so
\* the character after '%' is always the verb.
RECURSIVE SprintfFrom(_, _, _, _)
SprintfFrom(format, i, arg, used) ==
  IF i > Len(format) THEN (IF used THEN <<>> ELSE FmtExtra(arg))
  ELSE IF format[i] # "%" THEN <<format[i]>> \o SprintfFrom(format, i + 1, arg, used)
  ELSE IF i = Len(format) THEN FmtNoVerb \o SprintfFrom(format, i + 1, arg, used)
  ELSE LET verb == format[i + 1] IN
    IF verb = "%" THEN <<"%">> \o SprintfFrom(format, i + 2, arg, used)
    ELSE IF used THEN FmtMissing(verb) \o SprintfFrom(format, i + 2, arg, used)
    ELSE IF verb = "v" THEN arg \o SprintfFrom(format, i + 2, arg, TRUE)
    ELSE FmtBadVerb(verb, arg) \o SprintfFrom(format, i + 2, arg, TRUE)

Sprintf(format, arg) == SprintfFrom(format, 1, arg, FALSE)

\* the loop of QueryContext over args[i .. len(args)]
RECURSIVE SubstituteFrom(_, _, _)
SubstituteFrom(q, args, i) ==
  IF i > Len(args) THEN q
  ELSE SubstituteFrom(Sprintf(ReplaceFirst(q), args[i]), args, i + 1)

Substitute(q, args) == SubstituteFrom(q, args, 1)

(* ----------------------------- responses ------------------------------ *)

\* a hook is a func() bool: nil, or a function, modelled by what it returns
HookValues == {"nil", "returnsTrue", "returnsFalse"}

\* FakeResponse.Exceptions: a nil pointer, or a struct of two hook fields
NoExceptions ==
  [set |-> FALSE, HookExecBadConnection |-> "nil", HookQueryBadConnection |-> "nil"]
ExceptionsOf(execHook, queryHook) ==
  [set |-> TRUE, HookExecBadConnection |-> execHook, HookQueryBadConnection |-> queryHook]
ExceptionValues ==
  {NoExceptions} \cup {ExceptionsOf(e, q) : e \in HookValues, q \in HookValues}

\* keyed records (map[string]interface{}) of a response
Rec1 == [id |-> "1", name |-> "a"]
Rec2 == [id |-> "2", age |-> "9"]
RecordLists == {<<>>, <<Rec1>>, <<Rec1, Rec2>>}
\* the zero interface value read from a map for an absent key
NilValue == "nil"

\* a last-insert-id and a rows-affected count a test registers
RegisteredID == 7
RegisteredRows == 3

FakeResponse(exc, err, cb, id, n, recs) ==
  [Exceptions |-> exc, Error |-> err, Callback |-> cb,
   LastInsertID |-> id, RowsAffected |-> n, Response |-> recs]

\* responses that differ in what decides the control flow of a call
ControlResponses ==
  {FakeResponse(exc, err, cb, 0, 0, <<>>) :
     exc \in ExceptionValues, err \in {NoError, RegisteredError}, cb \in {"nil", "fn"}}

\* responses that differ in the data a successful call returns
DataResponses ==
  {FakeResponse(exc, NoError, "fn", id, n, recs) :
     exc \in {NoExceptions, ExceptionsOf("returnsFalse", "returnsFalse")},
     id \in {0, RegisteredID}, n \in {0, RegisteredRows}, recs \in RecordLists}

\* the response the catalog returns when no expectation matches
DefaultResponse == FakeResponse(ExceptionsOf("nil", "nil"), NoError, "nil", 0, 0, <<>>)

\* what the catalog finds for a call: no expectation, or the response of
\* the first registered expectation whose matcher accepts text and arguments
NoMock == [matched |-> FALSE]

\* Catcher.FindResponse(sql, args)
FindResponse(mock) == IF mock = NoMock THEN DefaultResponse ELSE mock

(* ------------------------------ results ------------------------------- *)

NilResult == [kind |-> "nil"]
\* NewFakeResult(insertID, rowsAffected)
NewFakeResult(id, n) == [kind |-> "FakeResult", insertID |-> id, rowsAffected |-> n]
\* driver.RowsAffected(n): a Result with a count and no insert id
RowsAffected(n) == [kind |-> "RowsAffected", rowsAffected |-> n]
IntResult(n) == [kind |-> "int", value |-> n]

\* the orders in which `for colName := range record` may visit the keys
KeyOrders(record) ==
  LET keys == DOMAIN record
      n == Cardinality(keys)
  IN  {o \in [1 .. n -> keys] : \A i, j \in 1 .. n : i # j => o[i] # o[j]}

\* record[col] of a Go map: the zero value for an absent key
MapGet(record, col) == IF col \in DOMAIN record THEN record[col] ELSE NilValue

\* the row built from one record: cols[colIndexes[col]] = record[col]
RowOf(record, columnNames) ==
  [cols |-> [i \in 1 .. Len(columnNames) |-> MapGet(record, columnNames[i])]]

\* a cursor whose rows are prepended, so that the last record comes first
BuildCursor_Prepend(recs, order) ==
  LET columnNames == IF Len(recs) > 0 THEN order ELSE <<>>
      rows == [i \in 1 .. Len(recs) |-> RowOf(recs[Len(recs) + 1 - i], columnNames)]
  IN  [kind |-> "RowsCursor", posRow |-> -1, rows |-> <<rows>>, cols |-> columnNames,
       colType |-> <<>>, errPos |-> -1, closed |-> FALSE]

\* the cursor QueryContext builds from the records; order is the order in
\* which the range over the first record's keys visited them
BuildCursor(recs, order) ==
  LET columnNames == IF Len(recs) > 0 THEN order ELSE <<>>
      rows == [i \in 1 .. Len(recs) |-> RowOf(recs[i], columnNames)]
  IN  [kind |-> "RowsCursor", posRow |-> -1, rows |-> <<rows>>, cols |-> columnNames,
       colType |-> <<>>, errPos |-> -1, closed |-> FALSE]

(* ------------------------------- state -------------------------------- *)

VARIABLES
  stmts,            \* [Stmts -> FakeStmt]
  conns,            \* [Conns -> FakeConn]: db (set or nil) and currTx
  HookBadCommit,    \* a hook value
  HookBadRollback,  \* a hook value
  call              \* what the last call did and returned

vars == <<stmts, conns, HookBadCommit, HookBadRollback, call>>

NilTx == 0

FakeStmt(connection, q, command, next, closed) ==
  [connection |-> connection, q |-> q, command |-> command, next |-> next,
   closed |-> closed, placeholders |-> CountPlaceholders(q)]

\* the record of one call: before holds the statements at entry, lookups
\* the FindResponse calls made, hooks what each hook invocation returned,
\* callbacks the Callback invocations
Call(op, target, args, before, panicked, err, res, lookups, hooks, callbacks) ==
  [op |-> op, target |-> target, args |-> args, before |-> before,
   panicked |-> panicked, err |-> err, res |-> res,
   lookups |-> lookups, hooks |-> hooks, callbacks |-> callbacks]

NoCall(before) == Call("none", 0, <<>>, before, FALSE, NoError, NilResult, <<>>, <<>>, <<>>)

Lookup(q, args, mock) ==
  [q |-> q, args |-> args, matched |-> mock # NoMock, resp |-> FindResponse(mock)]

Invocation(q, args) == [q |-> q, args |-> args]

\* calling a hook that is not nil
HookReturn(hook) == hook = "returnsTrue"

(* ------------------------------- Close -------------------------------- *)

\* a Close that flips the flag instead of setting it
RECURSIVE CloseFrom_Toggle(_, _, _)
CloseFrom_Toggle(st, cn, s) ==
  IF st[s].connection = NilConn THEN [stmts |-> st, panicked |-> TRUE]
  ELSE IF ~cn[st[s].connection].db THEN [stmts |-> st, panicked |-> TRUE]
  ELSE LET st1 == [st EXCEPT ![s].closed = ~st[s].closed]
       IN  IF st1[s].next # NilStmt THEN CloseFrom_Toggle(st1, cn, st1[s].next)
           ELSE [stmts |-> st1, panicked |-> FALSE]

\* a Close that returns at once on a statement that is closed already
RECURSIVE CloseFrom_SkipClosed(_, _, _)
CloseFrom_SkipClosed(st, cn, s) ==
  IF st[s].connection = NilConn THEN [stmts |-> st, panicked |-> TRUE]
  ELSE IF ~cn[st[s].connection].db THEN [stmts |-> st, panicked |-> TRUE]
  ELSE IF st[s].closed THEN [stmts |-> st, panicked |-> FALSE]
  ELSE LET st1 == [st EXCEPT ![s].closed = TRUE]
       IN  IF st1[s].next # NilStmt THEN CloseFrom_SkipClosed(st1, cn, st1[s].next)
           ELSE [stmts |-> st1, panicked |-> FALSE]

\* the statements after s.Close() ran on statements st, and whether it
\* panicked; what a panicking call wrote before the panic stays written
RECURSIVE CloseFrom(_, _, _)
CloseFrom(st, cn, s) ==
  IF st[s].connection = NilConn THEN [stmts |-> st, panicked |-> TRUE]
  ELSE IF ~cn[st[s].connection].db THEN [stmts |-> st, panicked |-> TRUE]
  ELSE LET st1 == IF ~st[s].closed THEN [st EXCEPT ![s].closed = TRUE] ELSE st
       IN  IF st1[s].next # NilStmt THEN CloseFrom(st1, cn, st1[s].next)
           ELSE [stmts |-> st1, panicked |-> FALSE]

Close(s) ==
  LET out == CloseFrom(stmts, conns, s) IN
  /\ stmts' = out.stmts
  /\ call' = Call("Close", s, <<>>, stmts, out.panicked, NoError, NilResult, <<>>, <<>>, <<>>)
  /\ UNCHANGED <<conns, HookBadCommit, HookBadRollback>>

(* ----------------------------- ExecContext ---------------------------- *)

\* a switch with no case for MERGE
ExecResult_NoMerge(command, fResp, rnd) ==
  CASE command = "INSERT" ->
         LET id == IF fResp.LastInsertID = 0 THEN rnd ELSE fResp.LastInsertID
         IN  [res |-> NewFakeResult(id, 1), err |-> NoError]
    [] command \in {"UPDATE", "DELETE"} ->
         [res |-> RowsAffected(fResp.RowsAffected), err |-> NoError]
    [] OTHER -> [res |-> NilResult, err |-> ErrUnimplemented(command)]

\* an INSERT that reports the registered rows-affected count
ExecResult_InsertCount(command, fResp, rnd) ==
  CASE command = "INSERT" ->
         LET id == IF fResp.LastInsertID = 0 THEN rnd ELSE fResp.LastInsertID
         IN  [res |-> NewFakeResult(id, fResp.RowsAffected), err |-> NoError]
    [] command \in {"UPDATE", "DELETE", "MERGE"} ->
         [res |-> RowsAffected(fResp.RowsAffected), err |-> NoError]
    [] OTHER -> [res |-> NilResult, err |-> ErrUnimplemented(command)]

\* a DELETE that reports the registered insert id as its count
ExecResult_DeleteID(command, fResp, rnd) ==
  CASE command = "INSERT" ->
         LET id == IF fResp.LastInsertID = 0 THEN rnd ELSE fResp.LastInsertID
         IN  [res |-> NewFakeResult(id, 1), err |-> NoError]
    [] command \in {"UPDATE", "MERGE"} ->
         [res |-> RowsAffected(fResp.RowsAffected), err |-> NoError]
    [] command = "DELETE" ->
         [res |-> RowsAffected(fResp.LastInsertID), err |-> NoError]
    [] OTHER -> [res |-> NilResult, err |-> ErrUnimplemented(command)]

\* a switch whose default case names no command
ExecResult_Unnamed(command, fResp, rnd) ==
  CASE command = "INSERT" ->
         LET id == IF fResp.LastInsertID = 0 THEN rnd ELSE fResp.LastInsertID
         IN  [res |-> NewFakeResult(id, 1), err |-> NoError]
    [] command \in {"UPDATE", "DELETE", "MERGE"} ->
         [res |-> RowsAffected(fResp.RowsAffected), err |-> NoError]
    [] OTHER -> [res |-> NilResult, err |-> ErrUnimplemented("")]

\* the switch on s.command
ExecResult(command, fResp, rnd) ==
  CASE command = "INSERT" ->
         LET id == IF fResp.LastInsertID = 0 THEN rnd ELSE fResp.LastInsertID
         IN  [res |-> NewFakeResult(id, 1), err |-> NoError]
    [] command \in {"UPDATE", "DELETE", "MERGE"} ->
         [res |-> RowsAffected(fResp.RowsAffected), err |-> NoError]
    [] OTHER -> [res |-> NilResult, err |-> ErrUnimplemented(command)]

\* whether the exec hook is called: Exceptions != nil and the hook != nil
ExecHookSet(fResp) ==
  fResp.Exceptions.set /\ fResp.Exceptions.HookExecBadConnection # "nil"

\* an ExecContext that tests fResp.Error before it calls the hook
ExecCall_ErrorFirst(st, s, args, mock, rnd) ==
  IF st[s].closed
  THEN Call("ExecContext", s, args, st, FALSE, errClosed, NilResult, <<>>, <<>>, <<>>)
  ELSE
    LET fResp == FindResponse(mock)
        looked == <<Lookup(st[s].q, args, mock)>>
        fired == ExecHookSet(fResp) /\ HookReturn(fResp.Exceptions.HookExecBadConnection)
        hooks == IF ExecHookSet(fResp) THEN <<fired>> ELSE <<>>
    IN  IF fResp.Error # NoError
        THEN Call("ExecContext", s, args, st, FALSE, fResp.Error, NilResult, looked, <<>>, <<>>)
        ELSE IF fired
        THEN Call("ExecContext", s, args, st, FALSE, ErrBadConn, NilResult, looked, hooks, <<>>)
        ELSE
          LET cbs == IF fResp.Callback # "nil" THEN <<Invocation(st[s].q, args)>> ELSE <<>>
              out == ExecResult(st[s].command, fResp, rnd)
          IN  Call("ExecContext", s, args, st, FALSE, out.err, out.res, looked, hooks, cbs)

\* an ExecContext that hands the Callback the text with the arguments
\* substituted
ExecCall_ResolvedCallback(st, s, args, mock, rnd) ==
  IF st[s].closed
  THEN Call("ExecContext", s, args, st, FALSE, errClosed, NilResult, <<>>, <<>>, <<>>)
  ELSE
    LET fResp == FindResponse(mock)
        looked == <<Lookup(st[s].q, args, mock)>>
        fired == ExecHookSet(fResp) /\ HookReturn(fResp.Exceptions.HookExecBadConnection)
        hooks == IF ExecHookSet(fResp) THEN <<fired>> ELSE <<>>
    IN  IF fired
        THEN Call("ExecContext", s, args, st, FALSE, ErrBadConn, NilResult, looked, hooks, <<>>)
        ELSE IF fResp.Error # NoError
        THEN Call("ExecContext", s, args, st, FALSE, fResp.Error, NilResult, looked, hooks, <<>>)
        ELSE
          LET cbs == IF fResp.Callback # "nil"
                     THEN <<Invocation(Substitute(st[s].q, args), args)>> ELSE <<>>
              out == ExecResult(st[s].command, fResp, rnd)
          IN  Call("ExecContext", s, args, st, FALSE, out.err, out.res, looked, hooks, cbs)

\* the call record of s.ExecContext(ctx, args) on statements st
ExecCall(st, s, args, mock, rnd) ==
  IF st[s].closed
  THEN Call("ExecContext", s, args, st, FALSE, errClosed, NilResult, <<>>, <<>>, <<>>)
  ELSE
    LET fResp == FindResponse(mock)
        looked == <<Lookup(st[s].q, args, mock)>>
        fired == ExecHookSet(fResp) /\ HookReturn(fResp.Exceptions.HookExecBadConnection)
        hooks == IF ExecHookSet(fResp) THEN <<fired>> ELSE <<>>
    IN  IF fired
        THEN Call("ExecContext", s, args, st, FALSE, ErrBadConn, NilResult, looked, hooks, <<>>)
        ELSE IF fResp.Error # NoError
        THEN Call("ExecContext", s, args, st, FALSE, fResp.Error, NilResult, looked, hooks, <<>>)
        ELSE
          LET cbs == IF fResp.Callback # "nil" THEN <<Invocation(st[s].q, args)>> ELSE <<>>
              out == ExecResult(st[s].command, fResp, rnd)
          IN  Call("ExecContext", s, args, st, FALSE, out.err, out.res, looked, hooks, cbs)

\* what rand.Int63() returns when it is called; no draw when it is not called
RandDraws(stmt, fResp) ==
  IF stmt.command = "INSERT" /\ fResp.LastInsertID = 0 THEN 0 .. MaxRand ELSE {0}

\* an ExecContext that runs the substitution loop on s.q as QueryContext
\* does
ExecContext_Substituting(s, args, mock) ==
  /\ (stmts[s].closed \/ Len(args) = 0 \/ Len(stmts[s].q) <= MaxQLen)
  /\ \E rnd \in RandDraws(stmts[s], FindResponse(mock)) :
       call' = ExecCall(stmts, s, args, mock, rnd)
  /\ stmts' = [stmts EXCEPT ![s].q =
                 IF stmts[s].closed \/ Len(args) = 0 THEN stmts[s].q
                 ELSE Substitute(stmts[s].q, args)]
  /\ UNCHANGED <<conns, HookBadCommit, HookBadRollback>>

ExecContext(s, args, mock) ==
  /\ \E rnd \in RandDraws(stmts[s], FindResponse(mock)) :
       call' = ExecCall(stmts, s, args, mock, rnd)
  /\ UNCHANGED <<stmts, conns, HookBadCommit, HookBadRollback>>

(* ---------------------------- QueryContext ---------------------------- *)

QueryHookSet(fResp) ==
  fResp.Exceptions.set /\ fResp.Exceptions.HookQueryBadConnection # "nil"

\* a substitution loop placed before the closed check
QueryText_BeforeClosedCheck(stmt, args) ==
  IF Len(args) > 0 THEN Substitute(stmt.q, args) ELSE stmt.q

\* s.q after the closed check and the substitution loop
QueryText(stmt, args) ==
  IF stmt.closed THEN stmt.q
  ELSE IF Len(args) > 0 THEN Substitute(stmt.q, args) ELSE stmt.q

\* a QueryContext that calls the Callback before it tests fResp.Error
QueryCall_CallbackFirst(st, s, args, mock, order) ==
  IF st[s].closed
  THEN Call("QueryContext", s, args, st, FALSE, errClosed, NilResult, <<>>, <<>>, <<>>)
  ELSE
    LET q == QueryText(st[s], args)
        fResp == FindResponse(mock)
        looked == <<Lookup(q, args, mock)>>
        fired == QueryHookSet(fResp) /\ HookReturn(fResp.Exceptions.HookQueryBadConnection)
        hooks == IF QueryHookSet(fResp) THEN <<fired>> ELSE <<>>
        cbs == IF fResp.Callback # "nil" THEN <<Invocation(q, args)>> ELSE <<>>
    IN  IF fired
        THEN Call("QueryContext", s, args, st, FALSE, ErrBadConn, NilResult, looked, hooks, <<>>)
        ELSE IF fResp.Error # NoError
        THEN Call("QueryContext", s, args, st, FALSE, fResp.Error, NilResult, looked, hooks, cbs)
        ELSE
          LET cursor == BuildCursor(fResp.Response, order)
          IN  Call("QueryContext", s, args, st, FALSE, NoError, cursor, looked, hooks, cbs)

\* the call record of s.QueryContext(ctx, args) on statements st
QueryCall(st, s, args, mock, order) ==
  IF st[s].closed
  THEN Call("QueryContext", s, args, st, FALSE, errClosed, NilResult, <<>>, <<>>, <<>>)
  ELSE
    LET q == QueryText(st[s], args)
        fResp == FindResponse(mock)
        looked == <<Lookup(q, args, mock)>>
        fired == QueryHookSet(fResp) /\ HookReturn(fResp.Exceptions.HookQueryBadConnection)
        hooks == IF QueryHookSet(fResp) THEN <<fired>> ELSE <<>>
    IN  IF fired
        THEN Call("QueryContext", s, args, st, FALSE, ErrBadConn, NilResult, looked, hooks, <<>>)
        ELSE IF fResp.Error # NoError
        THEN Call("QueryContext", s, args, st, FALSE, fResp.Error, NilResult, looked, hooks, <<>>)
        ELSE
          LET cursor == BuildCursor(fResp.Response, order)
              cbs == IF fResp.Callback # "nil" THEN <<Invocation(q, args)>> ELSE <<>>
          IN  Call("QueryContext", s, args, st, FALSE, NoError, cursor, looked, hooks, cbs)

\* the key orders the range over the first record may take
QueryOrders(mock) ==
  LET recs == FindResponse(mock).Response
  IN  IF Len(recs) > 0 THEN KeyOrders(recs[1]) ELSE {<<>>}

\* a QueryContext that substitutes into a copy of the text and leaves s.q
QueryContext_Local(s, args, mock) ==
  /\ (stmts[s].closed \/ Len(args) = 0 \/ Len(stmts[s].q) <= MaxQLen)
  /\ \E order \in QueryOrders(mock) : call' = QueryCall(stmts, s, args, mock, order)
  /\ UNCHANGED <<stmts, conns, HookBadCommit, HookBadRollback>>

QueryContext(s, args, mock) ==
  /\ (stmts[s].closed \/ Len(args) = 0 \/ Len(stmts[s].q) <= MaxQLen)
  /\ \E order \in QueryOrders(mock) : call' = QueryCall(stmts, s, args, mock, order)
  /\ stmts' = [stmts EXCEPT ![s].q = QueryText(stmts[s], args)]
  /\ UNCHANGED <<conns, HookBadCommit, HookBadRollback>>

(* ------------------------------ NumInput ------------------------------ *)

\* a NumInput that counts the placeholders of the stored text
NumInput_Recount(s) ==
  /\ call' = Call("NumInput", s, <<>>, stmts, FALSE, NoError,
                  IntResult(CountPlaceholders(stmts[s].q)), <<>>, <<>>, <<>>)
  /\ UNCHANGED <<stmts, conns, HookBadCommit, HookBadRollback>>

NumInput(s) ==
  /\ call' = Call("NumInput", s, <<>>, stmts, FALSE, NoError,
                  IntResult(stmts[s].placeholders), <<>>, <<>>, <<>>)
  /\ UNCHANGED <<stmts, conns, HookBadCommit, HookBadRollback>>

(* ------------------------------- FakeTx ------------------------------- *)

\* the error of Commit or Rollback under the hook variable's value
TxError(hook) == IF hook # "nil" /\ HookReturn(hook) THEN ErrBadConn ELSE NoError

TxHooks(hook) == IF hook # "nil" THEN <<HookReturn(hook)>> ELSE <<>>

\* a Commit that asks the hook first and clears currTx only on success
Commit_HookFirst(c) ==
  /\ conns' = IF TxError(HookBadCommit) = NoError
               THEN [conns EXCEPT ![c].currTx = NilTx] ELSE conns
  /\ call' = Call("Commit", c, <<>>, stmts, FALSE, TxError(HookBadCommit), NilResult,
                  <<>>, TxHooks(HookBadCommit), <<>>)
  /\ UNCHANGED <<stmts, HookBadCommit, HookBadRollback>>

\* tx.Commit() of the transaction whose connection tx.c is c
Commit(c) ==
  /\ conns' = [conns EXCEPT ![c].currTx = NilTx]
  /\ call' = Call("Commit", c, <<>>, stmts, FALSE, TxError(HookBadCommit), NilResult,
                  <<>>, TxHooks(HookBadCommit), <<>>)
  /\ UNCHANGED <<stmts, HookBadCommit, HookBadRollback>>

\* tx.Rollback() of the transaction whose connection tx.c is c
Rollback(c) ==
  /\ conns' = [conns EXCEPT ![c].currTx = NilTx]
  /\ call' = Call("Rollback", c, <<>>, stmts, FALSE, TxError(HookBadRollback), NilResult,
                  <<>>, TxHooks(HookBadRollback), <<>>)
  /\ UNCHANGED <<stmts, HookBadCommit, HookBadRollback>>

(* --------------------------- specifications --------------------------- *)

\* statements on connections drawn from connSet, with a command from
\* commandSet, a text from textSet and closed flags from closedSet;
\* transactions begun or not
InitOn(connSet, commandSet, textSet, closedSet, txSet, hookSet) ==
  /\ \E cn \in [Stmts -> connSet], cmd \in commandSet, q \in textSet,
        cl \in [Stmts -> closedSet] :
       stmts = [s \in Stmts |->
                  FakeStmt(cn[s], q, cmd, IF s < NumStmts THEN s + 1 ELSE NilStmt, cl[s])]
  /\ \E tx \in [Conns -> txSet] :
       conns = [c \in Conns |-> [db |-> (c = 1), currTx |-> tx[c]]]
  /\ HookBadCommit \in hookSet
  /\ HookBadRollback \in hookSet
  /\ call = NoCall(stmts)

\* calls with ExecContext arguments from execArgs, QueryContext arguments
\* from queryArgs and catalog answers from mockSet
NextOn(execArgs, queryArgs, mockSet) ==
  \/ \E s \in Stmts : Close(s)
  \/ \E s \in Stmts, args \in execArgs, mock \in mockSet : ExecContext(s, args, mock)
  \/ \E s \in Stmts, args \in queryArgs, mock \in mockSet : QueryContext(s, args, mock)
  \/ \E s \in Stmts : NumInput(s)
  \/ \E c \in Conns : Commit(c)
  \/ \E c \in Conns : Rollback(c)

\* no argument, or the one argument "a"
OneArg == {args \in ArgLists : Len(args) <= 1 /\ \A i \in 1 .. Len(args) : args[i] = <<"a">>}
\* argument lists of every length that repeat "a", and the one argument "%"
SomeArgs ==
  {args \in ArgLists : \A i \in 1 .. Len(args) : args[i] = <<"a">>} \cup {<< <<"%">> >>}

\* every command, every response that decides the control flow of a call
Init == InitOn({1}, Commands, {<<"?">>}, {FALSE}, {NilTx}, {"nil"})
Next == NextOn(OneArg, {<<>>}, {NoMock} \cup ControlResponses)
Spec == Init /\ [][Next]_vars

\* every command, every response that decides the data a call returns
InitData == InitOn({1}, Commands, {<<"?">>}, {FALSE}, {NilTx}, {"nil"})
NextData == NextOn(SomeArgs, {<<>>}, DataResponses)
SpecData == InitData /\ [][NextData]_vars

\* freshly prepared chains over open, closed and missing connections
InitChain == InitOn({NilConn, 1, 2}, {"INSERT"}, {<<"?">>}, {FALSE}, {NilTx}, {"nil"})
NextChain ==
  NextOn(OneArg, OneArg,
         {NoMock, FakeResponse(ExceptionsOf("returnsTrue", "returnsTrue"),
                               NoError, "fn", 0, 0, <<>>)})
SpecChain == InitChain /\ [][NextChain]_vars

\* chains whose statements were linked in any state: a statement may be
\* closed already while the statements after it are open
InitLinked ==
  InitOn({NilConn, 1, 2}, {"INSERT"}, {<<"?">>}, BOOLEAN, {NilTx}, {"nil"})
SpecLinked == InitLinked /\ [][NextChain]_vars

\* a text of two placeholders
Template == <<"?", "?">>

\* a response with a Callback, one whose hooks fire, one with an Error
SubstResponses ==
  {FakeResponse(NoExceptions, NoError, "fn", 0, 0, <<>>),
   FakeResponse(ExceptionsOf("returnsTrue", "returnsTrue"), NoError, "fn", 0, 0, <<>>),
   FakeResponse(NoExceptions, RegisteredError, "fn", 0, 0, <<>>)}

\* queries on the head of the chain that bind every argument list to a
\* text of two placeholders, so that a bound value is read again by the
\* next iteration of the substitution loop and by the next query
InitSubst == InitOn({1}, {"INSERT"}, {Template}, {FALSE}, {NilTx}, {"nil"})
NextSubst ==
  \/ \E s \in Stmts : Close(s)
  \/ \E s \in Stmts, args \in OneArg, mock \in SubstResponses : ExecContext(s, args, mock)
  \/ \E args \in ArgLists, mock \in SubstResponses : QueryContext(1, args, mock)
  \/ \E s \in Stmts : NumInput(s)
  \/ \E c \in Conns : Commit(c)
  \/ \E c \in Conns : Rollback(c)
SpecSubst == InitSubst /\ [][NextSubst]_vars

\* a transaction object
SomeTx == 1

\* connections with and without a transaction begun, under every value of
\* the two process-wide hooks
InitTx == InitOn({1}, {"INSERT"}, {<<"?">>}, {FALSE}, {NilTx, SomeTx}, HookValues)
NextTx == NextOn(OneArg, OneArg, {NoMock})
SpecTx == InitTx /\ [][NextTx]_vars

(* ------------------------------- claims ------------------------------- *)

\* the statement the last call was made on, as it was at entry
Entry == call.before[call.target]

IsExec == call.op = "ExecContext"
IsQuery == call.op = "QueryContext"

\* the statements reachable from s by next, s included
RECURSIVE ChainOf(_, _)
ChainOf(st, s) ==
  IF st[s].next = NilStmt THEN {s} ELSE {s} \cup ChainOf(st, st[s].next)

ValidConn(st, s) == st[s].connection # NilConn /\ conns[st[s].connection].db

\* C1: a call of ExecContext or QueryContext on a statement that is closed
\* returns the closed-statement error and a nil result, makes no catalog
\* lookup, calls no hook and no Callback, and leaves s.q as it was.
C1_ClosedCallsFail ==
  ((IsExec \/ IsQuery) /\ Entry.closed) =>
    /\ call.err = errClosed
    /\ call.res = NilResult
    /\ call.lookups = <<>>
    /\ call.hooks = <<>>
    /\ call.callbacks = <<>>
    /\ stmts[call.target].q = Entry.q

\* QueryContext was called with an argument on a closed statement whose
\* text holds a placeholder
C1_Witness ==
  /\ IsQuery
  /\ Entry.closed
  /\ Len(call.args) > 0
  /\ CountPlaceholders(Entry.q) > 0

C3_CloseCascades ==
  (call.op = "Close" /\ ~call.panicked) =>
    \A t \in ChainOf(call.before, call.target) : stmts[t].closed

\* Close returned on a statement that was closed already while a statement
\* further down its chain was open
C3_Witness ==
  /\ call.op = "Close"
  /\ ~call.panicked
  /\ Entry.closed
  /\ \E t \in ChainOf(call.before, call.target) : ~call.before[t].closed

\* the response the last call's catalog lookup returned
Resp == call.lookups[1].resp

\* the last call was op on a statement that was open
OpenCall(op) == call.op = op /\ ~Entry.closed

\* the response holds a hook for the last call's direction that returns true
HookFires ==
  /\ Resp.Exceptions.set
  /\ IF IsExec THEN Resp.Exceptions.HookExecBadConnection = "returnsTrue"
               ELSE Resp.Exceptions.HookQueryBadConnection = "returnsTrue"

OpenExecOrQuery == OpenCall("ExecContext") \/ OpenCall("QueryContext")

\* C4: on an open statement, when the response holds both a hook for the
\* call's direction that returns true and an Error, the call returns the
\* bad-connection error and a nil result, and calls no Callback.
C4_HookBeforeError ==
  (OpenExecOrQuery /\ HookFires /\ Resp.Error # NoError) =>
    /\ call.err = ErrBadConn
    /\ call.res = NilResult
    /\ call.callbacks = <<>>

\* ExecContext found a response with a firing exec hook, an Error and a
\* Callback
C4_Witness ==
  /\ OpenCall("ExecContext")
  /\ HookFires
  /\ Resp.Error = RegisteredError
  /\ Resp.Callback = "fn"

\* C5: when the response holds an Error and no hook for the call's
\* direction fires, the call returns that Error and a nil result and calls
\* no Callback, whatever the statement's command.
C5_ErrorReturnedVerbatim ==
  (OpenExecOrQuery /\ ~HookFires /\ Resp.Error # NoError) =>
    /\ call.err = Resp.Error
    /\ call.res = NilResult
    /\ call.callbacks = <<>>

\* QueryContext found a response with an Error, a Callback and a query
\* hook that returns false
C5_Witness ==
  /\ OpenCall("QueryContext")
  /\ Resp.Error = RegisteredError
  /\ Resp.Callback = "fn"
  /\ Resp.Exceptions.HookQueryBadConnection = "returnsFalse"

\* C6: the Callback of the response is called exactly once by a call that
\* returns a nil error and not at all by a call that returns an error.
C6_CallbackOnlyOnSuccess ==
  (IsExec \/ IsQuery) =>
    IF call.err = NoError
    THEN (Resp.Callback # "nil" => Len(call.callbacks) = 1)
    ELSE call.callbacks = <<>>

\* the last call looked up a text that no expectation matches
Unmatched == OpenExecOrQuery /\ ~call.lookups[1].matched

\* C7 as stated: for a text that matches no expectation, ExecContext and
\* QueryContext return no error, QueryContext a cursor of 0 rows and
\* ExecContext a result of 0 rows affected, whatever the command.
C7_UnmatchedNeverFails ==
  Unmatched =>
    /\ call.err = NoError
    /\ IsQuery => Len(call.res.rows[1]) = 0
    /\ IsExec => call.res.rowsAffected = 0

\* C7 as amended: for a text that matches no expectation, QueryContext
\* returns no error and a cursor of one result set with 0 rows, whatever the
\* command; ExecContext returns no error and 0 rows affected for UPDATE,
\* DELETE and MERGE, no error and 1 row affected for INSERT, and the
\* unimplemented-command error with a nil result for any other command.
C7_UnmatchedByCommand ==
  Unmatched =>
    /\ IsQuery =>
         /\ call.err = NoError
         /\ call.res.kind = "RowsCursor"
         /\ Len(call.res.rows) = 1
         /\ Len(call.res.rows[1]) = 0
    /\ (IsExec /\ Entry.command \in {"UPDATE", "DELETE", "MERGE"}) =>
         call.err = NoError /\ call.res = RowsAffected(0)
    /\ (IsExec /\ Entry.command = "INSERT") =>
         call.err = NoError /\ call.res.rowsAffected = 1
    /\ (IsExec /\ Entry.command \notin {"INSERT", "UPDATE", "DELETE", "MERGE"}) =>
         call.err = ErrUnimplemented(Entry.command) /\ call.res = NilResult

\* ExecContext of a MERGE looked up a text that no expectation matches
C7_Witness ==
  /\ Unmatched
  /\ IsExec
  /\ Entry.command = "MERGE"
  /\ Len(call.args) > 0

\* the last call was an ExecContext that passed the closed, hook and Error
\* checks
ExecPassed == OpenCall("ExecContext") /\ ~HookFires /\ Resp.Error = NoError

\* C8: an INSERT whose response has LastInsertID = 0 returns a generated
\* last-insert-id that is not 0.
C8_GeneratedIdNonZero ==
  (ExecPassed /\ Entry.command = "INSERT" /\ Resp.LastInsertID = 0) =>
    call.res.insertID # 0

\* C9: an INSERT whose response has LastInsertID = v, v not 0, returns no
\* error and a result with last-insert-id v and 1 row affected, whatever the
\* response's RowsAffected.
C9_RegisteredIdReturned ==
  (ExecPassed /\ Entry.command = "INSERT" /\ Resp.LastInsertID # 0) =>
    /\ call.err = NoError
    /\ call.res = NewFakeResult(Resp.LastInsertID, 1)

\* ExecContext of an INSERT found a response with a registered id, a
\* RowsAffected other than 1 and an exec hook that returns false
C9_Witness ==
  /\ ExecPassed
  /\ Entry.command = "INSERT"
  /\ Resp.LastInsertID = RegisteredID
  /\ Resp.RowsAffected = RegisteredRows
  /\ Resp.Exceptions.HookExecBadConnection = "returnsFalse"

\* C10: an UPDATE, DELETE or MERGE returns no error and a result whose
\* rows-affected is the response's RowsAffected, whatever the arguments.
C10_RowsAffectedReturned ==
  (ExecPassed /\ Entry.command \in {"UPDATE", "DELETE", "MERGE"}) =>
    /\ call.err = NoError
    /\ call.res.kind = "RowsAffected"
    /\ call.res.rowsAffected = Resp.RowsAffected

\* ExecContext of a DELETE with two arguments found a response with a
\* registered count and a registered id that differs from it
C10_Witness ==
  /\ ExecPassed
  /\ Entry.command = "DELETE"
  /\ Len(call.args) = 2
  /\ Resp.RowsAffected = RegisteredRows
  /\ Resp.LastInsertID = RegisteredID

\* the commands the switch of ExecContext has a case for
Implemented == {"INSERT", "UPDATE", "DELETE", "MERGE"}

\* C11: for every command other than INSERT, UPDATE, DELETE and MERGE
\* (SELECT and the empty command included), an ExecContext that passes the
\* closed, hook and Error checks returns a nil result and the
\* unimplemented-command error that names the statement's command.
C11_UnimplementedNamesCommand ==
  (ExecPassed /\ Entry.command \notin Implemented) =>
    /\ call.res = NilResult
    /\ call.err = ErrUnimplemented(Entry.command)

\* ExecContext of a SELECT with an argument passed an exec hook that
\* returns false and found no Error
C11_Witness ==
  /\ ExecPassed
  /\ Entry.command = "SELECT"
  /\ Len(call.args) > 0
  /\ Resp.Exceptions.HookExecBadConnection = "returnsFalse"

\* the last call was a QueryContext that passed the closed, hook and Error
\* checks
QueryPassed == OpenCall("QueryContext") /\ ~HookFires /\ Resp.Error = NoError

\* C12: whatever the command, a QueryContext on an open statement with no
\* firing hook and a nil Error returns a nil error and a cursor of exactly
\* one result set whose N rows are built from the response's N records in
\* their order, with posRow = -1, errPos = -1 and closed = false.
C12_CursorOfRecords ==
  QueryPassed =>
    /\ call.err = NoError
    /\ call.res.kind = "RowsCursor"
    /\ Len(call.res.rows) = 1
    /\ Len(call.res.rows[1]) = Len(Resp.Response)
    /\ \A i \in 1 .. Len(Resp.Response) :
         \A j \in 1 .. Len(call.res.cols) :
           call.res.rows[1][i].cols[j] = MapGet(Resp.Response[i], call.res.cols[j])
    /\ call.res.posRow = -1
    /\ call.res.errPos = -1
    /\ ~call.res.closed

\* QueryContext of an INSERT found a response of two records that differ
\* in a column of the first record
C12_Witness ==
  /\ QueryPassed
  /\ Entry.command = "INSERT"
  /\ Len(Resp.Response) = 2
  /\ \E c \in DOMAIN Resp.Response[1] :
       MapGet(Resp.Response[1], c) # MapGet(Resp.Response[2], c)

\* the order in which the literal that a test registers writes the keys of
\* a record
InsertionOrder(record) ==
  IF record = Rec1 THEN <<"id", "name">> ELSE <<"id", "age">>

\* the set of the elements of a sequence
Range(seq) == {seq[i] : i \in 1 .. Len(seq)}

\* C13: for a response of N records, the cursor's column list is the keys
\* of the first record in their insertion order, every row has as many
\* values as the first record has keys, row i holds at the index of column
\* c record i's value for c, or nil when record i has no c, and a column
\* that is not in the first record is nowhere in the cursor.
C13_RoundTrip ==
  (QueryPassed /\ Len(Resp.Response) > 0) =>
    /\ call.res.cols = InsertionOrder(Resp.Response[1])
    /\ \A i \in 1 .. Len(Resp.Response) :
         /\ Len(call.res.rows[1][i].cols) = Cardinality(DOMAIN Resp.Response[1])
         /\ \A j \in 1 .. Len(call.res.cols) :
              call.res.rows[1][i].cols[j] = MapGet(Resp.Response[i], call.res.cols[j])
    /\ Range(call.res.cols) \subseteq DOMAIN Resp.Response[1]

\* text q with its i-th placeholder replaced by args[k + i - 1], for as
\* many placeholders as there are arguments from k on
RECURSIVE PositionalFrom(_, _, _)
PositionalFrom(q, args, k) ==
  IF q = <<>> THEN <<>>
  ELSE IF Head(q) = "?" /\ k <= Len(args)
  THEN args[k] \o PositionalFrom(Tail(q), args, k + 1)
  ELSE <<Head(q)>> \o PositionalFrom(Tail(q), args, k)

\* the last call was a QueryContext on an open statement with arguments,
\* no more of them than the text had placeholders
BoundQuery ==
  /\ OpenCall("QueryContext")
  /\ Len(call.args) > 0
  /\ Len(call.args) <= CountPlaceholders(Entry.q)

\* C14: a QueryContext with arguments a1..ak on a text of m >= k
\* placeholders looks up, and stores in the statement, the text with its
\* i-th placeholder replaced by ai for i in 1..k and nothing else changed,
\* for all argument values, those that hold a '?' or a '%' included.
C14_PositionalSubstitution ==
  BoundQuery =>
    /\ call.lookups[1].q = PositionalFrom(Entry.q, call.args, 1)
    /\ stmts[call.target].q = PositionalFrom(Entry.q, call.args, 1)

\* C15: a QueryContext with arguments on an open statement stores the
\* substituted text, the text it looks up, in the statement, also when it
\* fails with bad connection or with a registered Error; it derives that
\* text from the text stored at entry, which is what the queries before it
\* left there and not the text the statement was prepared with; a
\* QueryContext without arguments looks up the stored text and leaves it;
\* and nothing but a QueryContext on the statement changes its text.
C15_SubstitutionPersists ==
  /\ (OpenCall("QueryContext") /\ Len(call.args) > 0) =>
       /\ call.lookups[1].q = Substitute(Entry.q, call.args)
       /\ stmts[call.target].q = call.lookups[1].q
  /\ (OpenCall("QueryContext") /\ Len(call.args) = 0) =>
       /\ call.lookups[1].q = Entry.q
       /\ stmts[call.target].q = Entry.q
  /\ \A s \in Stmts :
       (~IsQuery \/ s # call.target) => stmts[s].q = call.before[s].q

\* a QueryContext with an argument failed with bad connection on a
\* statement whose text an earlier query had rewritten, looked up a text
\* that the prepared text does not give with these arguments, and stored it
C15_Witness ==
  /\ OpenCall("QueryContext")
  /\ Len(call.args) > 0
  /\ call.err = ErrBadConn
  /\ Entry.q # Template
  /\ call.lookups[1].q # Substitute(Template, call.args)
  /\ stmts[call.target].q # Entry.q

\* C16: after Commit or Rollback returns, the owning connection's currTx
\* is nil; Commit returns bad connection if HookBadCommit is set and
\* returns true and nil otherwise, Rollback likewise under HookBadRollback;
\* and no statement's closed flag or text has changed.
C16_TxClearsAndReports ==
  (call.op \in {"Commit", "Rollback"}) =>
    LET hook == IF call.op = "Commit" THEN HookBadCommit ELSE HookBadRollback IN
    /\ conns[call.target].currTx = NilTx
    /\ call.err = (IF hook = "returnsTrue" THEN ErrBadConn ELSE NoError)
    /\ call.hooks = (IF hook = "nil" THEN <<>> ELSE <<hook = "returnsTrue">>)
    /\ \A s \in Stmts :
         /\ stmts[s].closed = call.before[s].closed
         /\ stmts[s].q = call.before[s].q

\* Commit returned bad connection under a HookBadCommit that returns true
\* and a HookBadRollback that does not, while the other connection holds a
\* transaction and a statement is closed
C16_Witness ==
  /\ call.op = "Commit"
  /\ call.err = ErrBadConn
  /\ HookBadCommit = "returnsTrue"
  /\ HookBadRollback # "returnsTrue"
  /\ \E c \in Conns : c # call.target /\ conns[c].currTx # NilTx
  /\ \E s \in Stmts : stmts[s].closed

\* C17: NumInput returns the placeholder count of the text the statement
\* was prepared with, after every sequence of ExecContext, QueryContext and
\* Close calls, those that substitute placeholders away and those made
\* after the statement was closed included; it makes no catalog lookup,
\* calls no hook and no Callback, and changes no statement.
C17_NumInputFixed ==
  /\ \A s \in Stmts : stmts[s].placeholders = CountPlaceholders(Template)
  /\ (call.op = "NumInput") =>
       /\ ~call.panicked
       /\ call.res = IntResult(CountPlaceholders(Template))
       /\ call.lookups = <<>>
       /\ call.hooks = <<>>
       /\ call.callbacks = <<>>
       /\ stmts = call.before

\* NumInput was called on a closed statement whose stored text holds fewer
\* placeholders than the text it was prepared with
C17_Witness ==
  /\ call.op = "NumInput"
  /\ Entry.closed
  /\ CountPlaceholders(Entry.q) < CountPlaceholders(Template)
  /\ call.res.value > 0

\* the last call was an ExecContext or a QueryContext with arguments that
\* called a Callback
BoundCallback ==
  /\ IsExec \/ IsQuery
  /\ Len(call.args) > 0
  /\ Len(call.callbacks) > 0

\* C18 as stated: a Callback called by ExecContext or QueryContext with
\* bound arguments receives the text with its placeholders replaced by the
\* bound values, which is the text of the call's catalog lookup, and the
\* call's arguments.
C18_CallbackSeesResolvedText ==
  BoundCallback =>
    /\ call.callbacks[1].q = PositionalFrom(Entry.q, call.args, 1)
    /\ call.callbacks[1].q = call.lookups[1].q
    /\ call.callbacks[1].args = call.args

\* C18 as amended: a Callback called by ExecContext or QueryContext with
\* bound arguments receives the text of the call's catalog lookup and the
\* call's arguments; from QueryContext that text is the text its
\* substitution loop left in the statement, from ExecContext it is the
\* stored text with no placeholder replaced.
C18_CallbackSeesLookupText ==
  BoundCallback =>
    /\ Len(call.callbacks) = 1
    /\ call.callbacks[1].q = call.lookups[1].q
    /\ call.callbacks[1].args = call.args
    /\ call.lookups[1].args = call.args
    /\ IsQuery =>
         /\ call.callbacks[1].q = Substitute(Entry.q, call.args)
         /\ call.callbacks[1].q = stmts[call.target].q
    /\ IsExec =>
         /\ call.callbacks[1].q = Entry.q
         /\ stmts[call.target].q = Entry.q

\* ExecContext with an argument called the Callback with a text that
\* still holds a placeholder
C18_Witness ==
  /\ BoundCallback
  /\ IsExec
  /\ call.err = NoError
  /\ CountPlaceholders(call.callbacks[1].q) > 0

\* C19: ExecContext changes no statement, whatever its arguments, its
\* response and its outcome (a result, bad connection, a registered Error,
\* an unimplemented command, a closed statement): text, command, closed
\* flag, placeholder count and next pointer are as before the call; and
\* its catalog lookup is made on the stored text, no argument substituted.
C19_ExecLeavesStatement ==
  IsExec =>
    /\ \A s \in Stmts :
         /\ stmts[s].q = call.before[s].q
         /\ stmts[s].command = call.before[s].command
         /\ stmts[s].closed = call.before[s].closed
         /\ stmts[s].placeholders = call.before[s].placeholders
         /\ stmts[s].next = call.before[s].next
    /\ ~Entry.closed =>
         /\ Len(call.lookups) = 1
         /\ call.lookups[1].q = Entry.q
         /\ call.lookups[1].args = call.args

\* ExecContext of an UPDATE with an argument returned a result on a
\* statement whose text holds a placeholder
C19_Witness ==
  /\ ExecPassed
  /\ Entry.command = "UPDATE"
  /\ call.err = NoError
  /\ Len(call.args) > 0
  /\ CountPlaceholders(Entry.q) > 0
  /\ Resp.Callback = "fn"

\* C20: a Close on s either returns with s and every statement of its
\* chain closed, or panics (a connection of the chain is nil or has a nil
\* db) with the closed flag of every statement of the chain as it was
\* before the call; no failed Close leaves a prefix of the chain closed.
C20_CloseAllOrNothing ==
  (call.op = "Close") =>
    IF call.panicked
    THEN \A t \in ChainOf(call.before, call.target) :
           stmts[t].closed = call.before[t].closed
    ELSE \A t \in ChainOf(call.before, call.target) : stmts[t].closed

====
